---- MODULE Spec2Model ----
(***************************************************************************)
(* Supervisor/worker workflow of the LangGraph assistant.                   *)
(*                                                                         *)
(* Texts are sequences of string fragments: a literal "abc" is <<"abc">>,   *)
(* an f-string f"Worker {id} not found" is <<"Worker ", id, " not found">>. *)
(* Python's None is NoneVal (<<>>), the empty string is EmptyText (<<"">>). *)
(* A Python dict whose order matters (worker results) is a sequence of      *)
(* <<key, value>> pairs in insertion order; the other dicts are functions   *)
(* over their present keys.                                                 *)
(***************************************************************************)
EXTENDS Naturals, Integers, Sequences, FiniteSets, TLC

VARIABLES
    entry,                \* who started the run: "process_query" | "ainvoke" | "memory"
    pc,                   \* position of the run
    user_query,           \* SystemState.user_query
    conversation_history, \* SystemState.supervisor_memory.conversation_history
    context_gathered,     \* SystemState.supervisor_memory.context_gathered
    worker_states,        \* SystemState.worker_states
    current_phase,        \* SystemState.current_phase
    final_response,       \* SystemState.final_response
    error_message,        \* SystemState.error_message
    worker_assignments,   \* coordinate_workers: the list being iterated
    idx,                  \* coordinate_workers: index of the next assignment
    results,              \* coordinate_workers: the local results dict
    response,             \* what process_query returned (NoResponse before)
    trace,                \* history: the graph nodes executed, in order
    calls,                \* history: number of calls of each collaborator operation
    asked,                \* history: how the last call of each operation ended
    dispatchLog,          \* history: one record per assignment dispatched
    other,                \* the run suspended while this one executes (NoRun: none)
    log,                  \* history: every message handed to add_message
    recent                \* the value of the last get_recent_context call

vars == <<entry, pc, user_query, conversation_history, context_gathered,
          worker_states, current_phase, final_response, error_message,
          worker_assignments, idx, results, response, trace, calls, asked,
          dispatchLog, other, log, recent>>

stateVars == <<user_query, conversation_history, context_gathered,
               worker_states, current_phase, final_response, error_message>>

coordVars == <<worker_assignments, idx, results>>

memVars == <<log, recent>>

----------------------------------------------------------------------------
(* Bounds of the model *)

\* longest worker_assignments list the plan collaborator returns
MaxAssignments == 2

\* number of update_memory calls explored on a stand-alone state
MaxUpdates == 3

\* number of add_message calls explored on a stand-alone memory
MaxAppends == 12

\* largest limit passed to get_recent_context
MaxLimit == 11

(* Program constants *)

\* models.py: add_message keeps the last 10 messages
MemoryCap == 10

\* supervisor.py: generate_follow_up_questions returns questions[:3]
QuestionLimit == 3

----------------------------------------------------------------------------
(* Texts *)

NoneVal == <<>>

EmptyText == <<"">>

\* Python truthiness of an Optional[str]
Truthy(t) == t # NoneVal /\ t # EmptyText

RECURSIVE JoinWith(_, _)
\* sep.join(texts)
JoinWith(texts, sep) ==
    IF Len(texts) = 0 THEN EmptyText
    ELSE IF Len(texts) = 1 THEN texts[1]
    ELSE texts[1] \o <<sep>> \o JoinWith(Tail(texts), sep)

(* Insertion-ordered dict: a sequence of <<key, value>> *)

DictKeys(d) == [i \in 1..Len(d) |-> d[i][1]]

DictHas(d, k) == \E i \in 1..Len(d) : d[i][1] = k

DictGet(d, k) == d[CHOOSE i \in 1..Len(d) : d[i][1] = k][2]

\* mutant: every assignment adds an entry
DictSetAppends(d, k, v) == Append(d, <<k, v>>)

\* d[k] = v: an existing key keeps its place, a new key goes last
DictSet(d, k, v) ==
    IF DictHas(d, k)
    THEN [i \in 1..Len(d) |-> IF d[i][1] = k THEN <<k, v>> ELSE d[i]]
    ELSE Append(d, <<k, v>>)

(* Unordered dict: a function over the present keys *)

EmptyDict == <<>>

MapHas(m, k) == k \in DOMAIN m

MapGet(m, k, default) == IF k \in DOMAIN m THEN m[k] ELSE default

MapPut(m, k, v) == [x \in (DOMAIN m) \cup {k} |-> IF x = k THEN v ELSE m[x]]

----------------------------------------------------------------------------
(* models.py *)

USER_INPUT == "user_input"
SUPERVISOR_QUESTION == "supervisor_question"
WORKER_RESPONSE == "worker_response"
SUPERVISOR_DECISION == "supervisor_decision"
WORKER_TASK == "worker_task"

MessageType == {USER_INPUT, SUPERVISOR_QUESTION, WORKER_RESPONSE,
                SUPERVISOR_DECISION, WORKER_TASK}

Message(content, sender, message_type) ==
    [content |-> content, sender |-> sender, message_type |-> message_type]

\* Python's s[start:] for a list s and any integer start
SliceFrom(s, start) ==
    LET n == Len(s)
        lo == IF start < 0 THEN (IF n + start < 0 THEN 0 ELSE n + start)
              ELSE (IF start > n THEN n ELSE start)
    IN  SubSeq(s, lo + 1, n)

\* mutant: the cap keeps the oldest messages
add_message_keeps_oldest(history, message) ==
    LET appended == Append(history, message)
    IN  IF Len(appended) > MemoryCap
        THEN SubSeq(appended, 1, MemoryCap)
        ELSE appended

\* SupervisorMemory.add_message, as a function of the history
add_message(history, message) ==
    LET appended == Append(history, message)
    IN  IF Len(appended) > MemoryCap
        THEN SliceFrom(appended, 0 - MemoryCap)
        ELSE appended

\* SupervisorMemory.get_recent_context
get_recent_context(history, limit) ==
    IF Len(history) > 0 THEN SliceFrom(history, 0 - limit) ELSE <<>>

\* SupervisorMemory.update_context
update_context(context, key, value) == MapPut(context, key, value)

WorkerState(worker_id) ==
    [worker_id |-> worker_id, current_task |-> NoneVal,
     task_result |-> NoneVal, is_busy |-> FALSE]

----------------------------------------------------------------------------
(* The reasoning collaborator (self.llm.ainvoke): it raises, or returns a   *)
(* response whose content is text.  Where the caller hands the content to   *)
(* json.loads, the content is [json |-> whether it parses, value |-> the    *)
(* parsed value].                                                           *)

Raises(cause) == [kind |-> "raise", cause |-> cause]

Returns(content) == [kind |-> "content", content |-> content]

Causes == {"connection refused"}

NotJson == [json |-> FALSE, value |-> <<>>]

Json(value) == [json |-> TRUE, value |-> value]

----------------------------------------------------------------------------
(* workers.py *)

WORKER_REGISTRY == {"research_worker", "creative_worker"}

\* the text a worker returns when its collaborator call raises
WorkerErrorPrefix(worker_id) ==
    IF worker_id = "research_worker" THEN "Error in research worker: "
    ELSE "Error in creative worker: "

\* ResearchWorker.process_task / CreativeWorker.process_task
process_task(worker_id, llm) ==
    IF llm.kind = "raise"
    THEN <<WorkerErrorPrefix(worker_id), llm.cause>>
    ELSE llm.content

\* a worker_id that is JSON null (None after json.loads)
NullId == "#null"

\* f"{worker_id}"
Str(worker_id) == IF worker_id = NullId THEN "None" ELSE worker_id

WorkerNotFound(worker_id) == <<"Worker ", Str(worker_id), " not found">>

\* mutant: the registry is indexed without the membership test, and the
\* KeyError of an unknown id is reported as a worker error
execute_worker_task_without_lookup(worker_id, llm) ==
    IF worker_id \notin WORKER_REGISTRY
    THEN <<"Error in worker: ", worker_id>>
    ELSE process_task(worker_id, llm)

\* execute_worker_task; llm is the outcome of the worker's collaborator call,
\* read only when the worker is registered
execute_worker_task(worker_id, llm) ==
    IF worker_id \notin WORKER_REGISTRY
    THEN WorkerNotFound(worker_id)
    ELSE process_task(worker_id, llm)

----------------------------------------------------------------------------
(* supervisor.py *)

EmptyPlanSummary ==
    [required_workers |-> <<>>, task_breakdown |-> <<>>,
     estimated_complexity |-> "unknown"]

\* type(v).__name__ of the JSON values that are not objects
NonObjectTypes == {"list", "int", "float", "str", "bool", "NoneType"}

\* a JSON value that is not an object, of the given Python type
NonObject(type) ==
    [isObject |-> FALSE, type |-> type, has_sufficient_info |-> "absent",
     missing_information |-> <<>>, follow_up_questions |-> <<>>,
     execution_plan |-> EmptyPlanSummary, confidence_score |-> "absent"]

\* the empty dict {}: every key absent
EmptyObject ==
    [isObject |-> TRUE, type |-> "dict", has_sufficient_info |-> "absent",
     missing_information |-> <<>>, follow_up_questions |-> <<>>,
     execution_plan |-> EmptyPlanSummary, confidence_score |-> "absent"]

\* a JSON object; has_sufficient_info is "true", "false" or "absent"
AnalysisObject(hsi, missing) ==
    [isObject |-> TRUE, type |-> "dict", has_sufficient_info |-> hsi,
     missing_information |-> missing, follow_up_questions |-> <<>>,
     execution_plan |-> EmptyPlanSummary, confidence_score |-> "0.9"]

ParseFallbackAnalysis ==
    [isObject |-> TRUE, type |-> "dict", has_sufficient_info |-> "false",
     missing_information |-> << <<"Unable to parse analysis">> >>,
     follow_up_questions |-> << <<"Could you please rephrase your request?">> >>,
     execution_plan |-> EmptyPlanSummary, confidence_score |-> "0.0"]

ErrorFallbackAnalysis(cause) ==
    [isObject |-> TRUE, type |-> "dict", has_sufficient_info |-> "false",
     missing_information |-> << <<"Error in analysis: ", cause>> >>,
     follow_up_questions |->
        << <<"There was an error processing your request. Please try again.">> >>,
     execution_plan |-> EmptyPlanSummary, confidence_score |-> "0.0"]

\* mutant: a raising call gets the parse fallback
analyze_user_query_one_fallback(llm) ==
    IF llm.kind = "content" /\ llm.content.json THEN llm.content.value
    ELSE ParseFallbackAnalysis

\* Supervisor.analyze_user_query
analyze_user_query(llm) ==
    IF llm.kind = "raise" THEN ErrorFallbackAnalysis(llm.cause)
    ELSE IF llm.content.json THEN llm.content.value
    ELSE ParseFallbackAnalysis

\* JSON numbers among the items of a list: str.join rejects them
JsonNumbers == {<<"#1">>}

JoinRaises(items) == \E i \in 1..Len(items) : items[i] \in JsonNumbers

\* the position (from 1) of the first item that is a JSON number
FirstNumber(items) ==
    CHOOSE i \in 1..Len(items) :
        /\ items[i] \in JsonNumbers
        /\ \A j \in 1..(i - 1) : items[j] \notin JsonNumbers

\* str(e) of the TypeError of ", ".join(items): it names the index (from 0)
\* of the first item that is no str
JoinError(items) ==
    CASE FirstNumber(items) = 1 ->
            "sequence item 0: expected str instance, int found"
      [] FirstNumber(items) = 2 ->
            "sequence item 1: expected str instance, int found"
      [] FirstNumber(items) = 3 ->
            "sequence item 2: expected str instance, int found"
      [] FirstNumber(items) = 4 ->
            "sequence item 3: expected str instance, int found"

\* the lines of collaborator output that contain a question mark
QuestionTexts == {"What topic?", "Which tone?", "How long?", "For whom?"}

\* a line is [text |-> the line without its surrounding blanks, padded |->
\* whether it had any]; q.strip() is the text
Strip(line) == <<line.text>>

Line(text) == [text |-> text, padded |-> FALSE]

Padded(text) == [text |-> text, padded |-> TRUE]

\* q.strip() and '?' in q
KeepLine(line) == line.text # "" /\ line.text \in QuestionTexts

RECURSIVE FilterQuestions(_)
\* [q.strip() for q in lines if q.strip() and '?' in q]
FilterQuestions(lines) ==
    IF Len(lines) = 0 THEN <<>>
    ELSE IF KeepLine(Head(lines))
         THEN <<Strip(Head(lines))>> \o FilterQuestions(Tail(lines))
         ELSE FilterQuestions(Tail(lines))

\* questions[:n]
Prefix(s, n) == SubSeq(s, 1, IF Len(s) < n THEN Len(s) ELSE n)

FallbackQuestion(missing_info) ==
    <<"Could you provide more details about: ">> \o JoinWith(missing_info, ", ")

\* mutant: every question line is returned
generate_follow_up_questions_unlimited(missing_info, llm) ==
    IF llm.kind = "raise" THEN <<FallbackQuestion(missing_info)>>
    ELSE FilterQuestions(llm.content)

\* Supervisor.generate_follow_up_questions, called with a joinable missing_info
generate_follow_up_questions(missing_info, llm) ==
    IF llm.kind = "raise" THEN <<FallbackQuestion(missing_info)>>
    ELSE Prefix(FilterQuestions(llm.content), QuestionLimit)

Assignment(worker_id, task, dependencies) ==
    [missing |-> "none", worker_id |-> worker_id, task |-> task,
     priority |-> "high", dependencies |-> dependencies]

\* an assignment object without its "worker_id" or its "task" key
Malformed(key) ==
    [missing |-> key, worker_id |-> "", task |-> NoneVal,
     priority |-> "high", dependencies |-> <<>>]

Plan(assignments, order) ==
    [isObject |-> TRUE, type |-> "dict", worker_assignments |-> assignments,
     execution_order |-> order]

\* a JSON value that is not an object, of the given Python type
NonObjectPlan(type) ==
    [isObject |-> FALSE, type |-> type, worker_assignments |-> <<>>,
     execution_order |-> <<>>]

FallbackPlan ==
    Plan(<< [missing |-> "none", worker_id |-> "research_worker",
             task |-> <<"Gather information related to the query">>,
             priority |-> "high", dependencies |-> <<>>],
            [missing |-> "none", worker_id |-> "creative_worker",
             task |-> <<"Process and present the information creatively">>,
             priority |-> "medium", dependencies |-> <<"research_worker">>] >>,
         <<"research_worker", "creative_worker">>)

EmptyPlan == Plan(<<>>, <<>>)

\* mutant: a raising call gets the two-step plan as well
create_execution_plan_one_fallback(llm) ==
    IF llm.kind = "content" /\ llm.content.json THEN llm.content.value
    ELSE FallbackPlan

\* Supervisor.create_execution_plan
create_execution_plan(llm) ==
    IF llm.kind = "raise" THEN EmptyPlan
    ELSE IF llm.content.json THEN llm.content.value
    ELSE FallbackPlan

WorkerBusy(worker_id) == <<"Worker ", Str(worker_id), " is busy">>

CoordinationError(cause) == << <<"error", <<"Coordination error: ", cause>> >> >>

\* mutant: the error entry is added to the results collected so far
CoordinationFailedKeepsResults(collected, cause) ==
    DictSet(collected, "error", <<"Coordination error: ", cause>>)

\* the outer except of coordinate_workers (lines 215-216): what was
\* collected in the local results dict is dropped
CoordinationFailed(collected, cause) == CoordinationError(cause)

\* mutant: a failed synthesis gives the empty text
synthesize_results_empty_on_failure(llm) ==
    IF llm.kind = "raise" THEN EmptyText ELSE llm.content

\* Supervisor.synthesize_results
synthesize_results(llm) ==
    IF llm.kind = "raise"
    THEN <<"Error synthesizing results: ", llm.cause>>
    ELSE llm.content

\* f"worker_{worker_id}_last_response"
WorkerResponseKey(sender) ==
    CASE sender = "research_worker" -> "worker_research_worker_last_response"
      [] sender = "creative_worker" -> "worker_creative_worker_last_response"
      [] sender = "analysis_worker" -> "worker_analysis_worker_last_response"
      [] sender = "supervisor" -> "worker_supervisor_last_response"
      [] sender = "user" -> "worker_user_last_response"

\* mutant: the content of every message is kept as the last user input
update_memory_context_every_kind(context, message) ==
    IF message.message_type = WORKER_RESPONSE
    THEN update_context(context, WorkerResponseKey(message.sender),
                        message.content)
    ELSE update_context(context, "last_user_input", message.content)

\* the context part of Supervisor.update_memory
update_memory_context(context, message) ==
    IF message.message_type = USER_INPUT
    THEN update_context(context, "last_user_input", message.content)
    ELSE IF message.message_type = WORKER_RESPONSE
    THEN update_context(context, WorkerResponseKey(message.sender),
                        message.content)
    ELSE context

----------------------------------------------------------------------------
(* The outcomes of the collaborator calls explored *)

MissingChoices ==
    { <<>>,
      << <<"the topic">> >>,
      << <<"the topic">>, <<"the tone">> >>,
      << <<"#1">> >>,
      << <<"the topic">>, <<"#1">> >> }

AnalysisOutcomes ==
    {Raises(c) : c \in Causes}
    \cup {Returns(NotJson)}
    \cup {Returns(Json(NonObject(t))) : t \in NonObjectTypes}
    \cup {Returns(Json(AnalysisObject(h, m))) :
            h \in {"true", "false", "absent"}, m \in MissingChoices}

FollowUpContents ==
    { << Line("What topic?"), Padded("Which tone?") >>,
      << Line("Here are some questions:"), Padded(""), Line("What topic?"),
         Line("Which tone?"), Line("How long?"), Line("For whom?") >>,
      << Line("I need more details.") >> }

FollowUpOutcomes ==
    {Raises(c) : c \in Causes} \cup {Returns(c) : c \in FollowUpContents}

PlanWorkerIds == WORKER_REGISTRY \cup {"analysis_worker", NullId}

Tasks == { <<"find sources">>, <<"write a summary">> }

\* assignments naming a dependency: a worker that may come later in the
\* list, may have failed, or may not be in the plan at all
DependentAssignments ==
    {Assignment("research_worker", <<"find sources">>, <<"creative_worker">>),
     Assignment("creative_worker", <<"write a summary">>, <<"research_worker">>)}

AssignmentChoices ==
    {Assignment(w, t, <<>>) : w \in PlanWorkerIds, t \in Tasks}
    \cup DependentAssignments
    \cup {Malformed("worker_id"), Malformed("task")}

AssignmentLists ==
    UNION {[1..n -> AssignmentChoices] : n \in 0..MaxAssignments}

PlanOutcomes ==
    {Raises(c) : c \in Causes}
    \cup {Returns(NotJson)}
    \cup {Returns(Json(NonObjectPlan(t))) : t \in NonObjectTypes}
    \cup {Returns(Json(Plan(a, <<>>))) : a \in AssignmentLists}

WorkerOutcomes ==
    {Raises(c) : c \in Causes} \cup {Returns(<<"worker output">>)}

SynthesisOutcomes ==
    {Raises(c) : c \in Causes} \cup {Returns(<<"final answer">>)}

\* no collaborator call is made
NoCall == [kind |-> "none"]

Queries == { <<"Help me write something">> }

----------------------------------------------------------------------------
(* workflow.py *)

\* the names workflow.py binds at module level (its imports, lines 1-8)
WorkflowNames ==
    {"Dict", "Any", "List", "StateGraph", "END", "START", "SystemState",
     "Message", "MessageType", "Supervisor", "WORKER_REGISTRY", "asyncio",
     "json", "LangGraphWorkflow"}

NoResponse == EmptyDict

\* no get_recent_context call has been made since the last add_message
NoRecent == [called |-> FALSE, limit |-> 0, value |-> <<>>]

NoCalls ==
    [analysis |-> 0, followup |-> 0, plan |-> 0, coordinate |-> 0,
     worker |-> 0, synthesis |-> 0]

\* no collaborator operation has been called
NoAsked ==
    [analysis |-> NoCall, followup |-> NoCall, plan |-> NoCall,
     synthesis |-> NoCall]

\* no second run is in flight
NoRun == [pc |-> "none"]

\* a second run is in flight on the same workflow object
Concurrent == other.pc # "none"

\* the collaborator outcomes explored while two runs are in flight
ConcurrentAnalysisOutcomes ==
    {Raises(c) : c \in Causes}
    \cup {Returns(NotJson), Returns(Json(NonObject("list"))),
          Returns(Json(AnalysisObject("true", <<>>)))}

ConcurrentFollowUpOutcomes ==
    {Raises(c) : c \in Causes}
    \cup {Returns(<< Line("What topic?"), Padded("Which tone?") >>)}

ConcurrentPlanOutcomes == {Raises(c) : c \in Causes} \cup {Returns(NotJson)}

\* the outcomes explored for one collaborator call
Explored(outcomes, few) == IF Concurrent THEN few ELSE outcomes

\* the worker states process_query means to build (lines 177-178)
RegistryWorkerStates == [w \in WORKER_REGISTRY |-> WorkerState(w)]

\* SystemState(user_query=...): the defaults of models.py
InitState ==
    /\ user_query \in Queries
    /\ conversation_history = <<>>
    /\ context_gathered = EmptyDict
    /\ current_phase = "gathering_info"
    /\ final_response = NoneVal
    /\ error_message = NoneVal

InitHistory ==
    /\ worker_assignments = <<>>
    /\ idx = 1
    /\ results = <<>>
    /\ response = NoResponse
    /\ trace = <<>>
    /\ calls = NoCalls
    /\ asked = NoAsked
    /\ dispatchLog = <<>>
    /\ log = <<>>
    /\ recent = NoRecent

\* A run starts either in process_query, or with the compiled graph invoked
\* on a fresh SystemState (worker states absent, or one per registry key).
Init ==
    /\ entry \in {"process_query", "ainvoke"}
    /\ pc = IF entry = "process_query" THEN "process_query" ELSE "START"
    /\ InitState
    /\ worker_states \in (IF entry = "process_query" THEN {EmptyDict}
                          ELSE {EmptyDict, RegistryWorkerStates})
    /\ InitHistory
    /\ other = NoRun

WorkflowExecutionError(cause) ==
    [status |-> "error", error |-> <<"Workflow execution error: ", cause>>]

\* process_query, lines 172-181 and 208-212: build the initial state, fill
\* worker_states from the registry, invoke the graph.  The loop body names
\* WorkerState, which raises NameError unless workflow.py binds that name.
process_query ==
    /\ pc = "process_query"
    /\ IF WORKER_REGISTRY = {} \/ "WorkerState" \in WorkflowNames
       THEN /\ worker_states' = RegistryWorkerStates
            /\ pc' = "START"
            /\ UNCHANGED response
       ELSE /\ response' =
                WorkflowExecutionError("name 'WorkerState' is not defined")
            /\ pc' = "returned"
            /\ UNCHANGED worker_states
    /\ UNCHANGED <<entry, other, user_query, conversation_history, context_gathered,
                   current_phase, final_response, error_message, coordVars,
                   trace, calls, asked, dispatchLog, memVars>>

\* the edge START -> supervisor_analysis (line 28)
graph_start ==
    /\ pc = "START"
    /\ pc' = "supervisor_analysis"
    /\ UNCHANGED <<entry, other, stateVars, coordVars, response, trace, calls, asked,
                   dispatchLog, memVars>>

\* analysis.get("has_sufficient_info", False)
HasSufficientInfo(analysis) == analysis.has_sufficient_info = "true"

\* context_gathered.get("last_analysis", {})
LastAnalysis(context) == MapGet(context, "last_analysis", EmptyObject)

\* mutant: the two branches on has_sufficient_info exchanged
route_after_analysis_swapped(context, error) ==
    IF Truthy(error) THEN "end"
    ELSE IF HasSufficientInfo(LastAnalysis(context)) THEN "gather_info"
    ELSE "execute_workers"

\* mutant: error_message is not looked at
route_after_analysis_ignores_error(context, error) ==
    IF HasSufficientInfo(LastAnalysis(context)) THEN "execute_workers"
    ELSE "gather_info"

\* mutant: without an error the workers are always executed
route_after_analysis_always_executes(context, error) ==
    IF Truthy(error) THEN "end" ELSE "execute_workers"

\* _route_after_analysis
route_after_analysis(context, error) ==
    IF Truthy(error) THEN "end"
    ELSE IF HasSufficientInfo(LastAnalysis(context)) THEN "execute_workers"
    ELSE "gather_info"

\* mutant: "end" is mapped to the synthesis node
RouteTargetEndToSynthesis(route) ==
    CASE route = "gather_info" -> "gather_info"
      [] route = "execute_workers" -> "execute_workers"
      [] route = "end" -> "synthesize_results"

\* mutant: "end" is mapped to a node the graph does not have
RouteTargetUnmapped(route) ==
    CASE route = "gather_info" -> "gather_info"
      [] route = "execute_workers" -> "execute_workers"
      [] route = "end" -> "end"

\* mutant: a run whose analysis failed is sent through the analysis again
RouteTargetRetriesAnalysis(route) ==
    CASE route = "gather_info" -> "gather_info"
      [] route = "execute_workers" -> "execute_workers"
      [] route = "end" -> "supervisor_analysis"

\* the mapping of the conditional edge (lines 34-38)
RouteTarget(route) ==
    CASE route = "gather_info" -> "gather_info"
      [] route = "execute_workers" -> "execute_workers"
      [] route = "end" -> "END"

\* str(e) of the AttributeError of value.get for a value of the given type
NotADictError(type) ==
    CASE type = "list" -> "'list' object has no attribute 'get'"
      [] type = "int" -> "'int' object has no attribute 'get'"
      [] type = "float" -> "'float' object has no attribute 'get'"
      [] type = "str" -> "'str' object has no attribute 'get'"
      [] type = "bool" -> "'bool' object has no attribute 'get'"
      [] type = "NoneType" -> "'NoneType' object has no attribute 'get'"

\* _supervisor_analysis_node up to its await (lines 49-59): the user message
\* is put into the memory, then the run waits for the analysis collaborator
supervisor_analysis_update_memory ==
    /\ pc = "supervisor_analysis"
    /\ LET user_message == Message(user_query, "user", USER_INPUT)
       IN  /\ conversation_history' =
                  add_message(conversation_history, user_message)
           /\ context_gathered' =
                  update_memory_context(context_gathered, user_message)
    /\ pc' = "analyze_user_query"
    /\ UNCHANGED <<entry, other, user_query, worker_states, current_phase,
                   final_response, error_message, coordVars, response, trace,
                   calls, asked, dispatchLog, memVars>>

\* _supervisor_analysis_node from its await on (lines 59-74), then the
\* conditional edge out of it
supervisor_analysis_node ==
    /\ pc = "analyze_user_query"
    /\ \E llm \in Explored(AnalysisOutcomes, ConcurrentAnalysisOutcomes) :
         LET analysis == analyze_user_query(llm)
             context2 == update_context(context_gathered, "last_analysis",
                                        analysis)
             error == IF analysis.isObject THEN error_message
                      ELSE <<"Error in supervisor analysis: ",
                             NotADictError(analysis.type)>>
         IN  /\ context_gathered' = context2
             /\ current_phase' =
                    IF ~analysis.isObject THEN current_phase
                    ELSE IF HasSufficientInfo(analysis) THEN "processing"
                    ELSE "gathering_info"
             /\ error_message' = error
             /\ pc' = RouteTarget(route_after_analysis(context2, error))
             /\ asked' = [asked EXCEPT !.analysis = llm]
    /\ trace' = Append(trace, "supervisor_analysis")
    /\ calls' = [calls EXCEPT !.analysis = @ + 1]
    /\ UNCHANGED <<entry, other, user_query, conversation_history, worker_states,
                   final_response, coordVars, response, dispatchLog, memVars>>

\* _gather_info_node, then the edge gather_info -> END (line 41)
gather_info_node ==
    /\ pc = "gather_info"
    /\ LET missing_info == LastAnalysis(context_gathered).missing_information
           asks == Len(missing_info) > 0 /\ ~JoinRaises(missing_info)
       IN  \E llm \in (IF asks THEN Explored(FollowUpOutcomes,
                                     ConcurrentFollowUpOutcomes)
                       ELSE {NoCall}) :
             IF asks
             THEN LET follow_up_questions ==
                          generate_follow_up_questions(missing_info, llm)
                      question_message ==
                          Message(JoinWith(follow_up_questions, "\n"),
                                  "supervisor", SUPERVISOR_QUESTION)
                  IN  /\ conversation_history' =
                             add_message(conversation_history, question_message)
                      /\ context_gathered' =
                             update_context(
                                 update_memory_context(context_gathered,
                                                       question_message),
                                 "follow_up_questions", follow_up_questions)
                      /\ calls' = [calls EXCEPT !.followup = @ + 1]
                      /\ asked' = [asked EXCEPT !.followup = llm]
                      /\ UNCHANGED error_message
             ELSE /\ error_message' =
                        IF Len(missing_info) > 0
                        THEN <<"Error in gathering info: ",
                               JoinError(missing_info)>>
                        ELSE error_message
                  /\ UNCHANGED <<conversation_history, context_gathered, calls, asked>>
    /\ pc' = "END"
    /\ trace' = Append(trace, "gather_info")
    /\ UNCHANGED <<entry, other, user_query, worker_states, current_phase,
                   final_response, coordVars, response, dispatchLog, memVars>>

HasDependencies(assignment) == Len(assignment.dependencies) > 0

HasNoDependencies(assignment) == Len(assignment.dependencies) = 0

\* mutant: the assignments without dependencies are taken first
AssignmentsInDependencyOrder(execution_plan) ==
    SelectSeq(execution_plan.worker_assignments, HasNoDependencies)
        \o SelectSeq(execution_plan.worker_assignments, HasDependencies)

\* execution_plan.get("worker_assignments", []), the list the loop iterates
Assignments(execution_plan) == execution_plan.worker_assignments

\* _execute_workers_node, lines 107-118: create the plan, store it in the
\* context, and enter coordinate_workers (lines 183-185)
execute_workers_node ==
    /\ pc = "execute_workers"
    /\ \E llm \in Explored(PlanOutcomes, ConcurrentPlanOutcomes) :
         LET execution_plan == create_execution_plan(llm)
         IN  /\ context_gathered' =
                    update_context(context_gathered, "execution_plan",
                                   execution_plan)
             /\ asked' = [asked EXCEPT !.plan = llm]
             /\ IF ~execution_plan.isObject
                THEN \* execution_plan.get raises inside coordinate_workers
                     /\ results' = CoordinationFailed(<<>>,
                                            NotADictError(execution_plan.type))
                     /\ worker_assignments' = <<>>
                     /\ pc' = "store_results"
                ELSE /\ results' = <<>>
                     /\ worker_assignments' = Assignments(execution_plan)
                     /\ pc' = IF Len(Assignments(execution_plan)) = 0
                              THEN "store_results" ELSE "coordinate_workers"
    /\ idx' = 1
    /\ trace' = Append(trace, "execute_workers")
    /\ calls' = [calls EXCEPT !.plan = @ + 1, !.coordinate = @ + 1]
    /\ UNCHANGED <<entry, other, user_query, conversation_history, worker_states,
                   current_phase, final_response, error_message, response,
                   dispatchLog, memVars>>

\* mutant: the worker is marked busy by the dispatch and never released
UpdatedWorkerStatesMarksBusy(states, worker_id, task, result) ==
    LET known == IF MapHas(states, worker_id) THEN states
                 ELSE MapPut(states, worker_id, WorkerState(worker_id))
    IN  [known EXCEPT ![worker_id] =
            [@ EXCEPT !.current_task = task, !.task_result = result,
                      !.is_busy = TRUE]]

\* WorkerState(worker_id=worker_id) (line 203) raises pydantic's
\* ValidationError for an id that is no str; it is called only for an id
\* that has no state yet
WorkerStateRaises(states, worker_id) ==
    ~MapHas(states, worker_id) /\ worker_id = NullId

\* str(e) of that ValidationError, up to the part that depends on the
\* pydantic version
ValidationError == "1 validation error for WorkerState\nworker_id"

\* results[worker_id] after the inner try of the loop (lines 197-211): the
\* result of the dispatch, replaced by the error text when the state update
\* raised
RecordedResult(states, worker_id, result) ==
    IF WorkerStateRaises(states, worker_id)
    THEN <<"Error executing task: ", ValidationError>>
    ELSE result

\* mutant: a state is created for every id, also when WorkerState(...)
\* raises
UpdatedWorkerStatesAlwaysCreates(states, worker_id, task, result) ==
    LET known == IF MapHas(states, worker_id) THEN states
                 ELSE MapPut(states, worker_id, WorkerState(worker_id))
    IN  [known EXCEPT ![worker_id] =
            [@ EXCEPT !.current_task = task, !.task_result = result,
                      !.is_busy = FALSE]]

\* the worker states after the inner try of the loop (lines 202-211): no
\* state is created or changed when WorkerState(...) raised
UpdatedWorkerStates(states, worker_id, task, result) ==
    IF WorkerStateRaises(states, worker_id) THEN states
    ELSE LET known == IF MapHas(states, worker_id) THEN states
                      ELSE MapPut(states, worker_id, WorkerState(worker_id))
         IN  [known EXCEPT ![worker_id] =
                 [@ EXCEPT !.current_task = task, !.task_result = result,
                           !.is_busy = FALSE]]

\* worker_id in state.worker_states and state.worker_states[worker_id].is_busy
IsBusy(states, worker_id) ==
    MapHas(states, worker_id) /\ states[worker_id].is_busy

KeyError(key) == IF key = "worker_id" THEN "'worker_id'" ELSE "'task'"

\* mutant: the loop is left when a worker fails
AfterIterationStopsOnFailure(i, n, llm) ==
    IF i = n \/ llm.kind = "raise" THEN "store_results" ELSE "coordinate_workers"

\* the for loop (line 187) after iteration i of n, whose worker call ended
\* as llm: a failure of one worker does not leave the loop
AfterIteration(i, n, llm) ==
    IF i = n THEN "store_results" ELSE "coordinate_workers"

\* coordinate_workers, one iteration of the loop (lines 187-211); after the
\* last one, or when the iteration raises, coordinate_workers returns
coordinate_workers ==
    /\ pc = "coordinate_workers"
    /\ idx <= Len(worker_assignments)
    /\ LET assignment == worker_assignments[idx]
           worker_id == assignment.worker_id
           task == assignment.task
           dispatches == /\ assignment.missing = "none"
                         /\ ~IsBusy(worker_states, worker_id)
           asks == dispatches /\ worker_id \in WORKER_REGISTRY
       IN  \E llm \in (IF asks THEN WorkerOutcomes
                       ELSE {NoCall}) :
             IF assignment.missing # "none"
             THEN /\ results' =
                        CoordinationFailed(results, KeyError(assignment.missing))
                  /\ pc' = "store_results"
                  /\ UNCHANGED <<idx, worker_states, calls, asked, dispatchLog>>
             ELSE /\ IF ~dispatches
                     THEN /\ results' =
                                DictSet(results, worker_id, WorkerBusy(worker_id))
                          /\ UNCHANGED <<worker_states, calls, asked, dispatchLog>>
                     ELSE LET result == execute_worker_task(worker_id, llm)
                              recorded == RecordedResult(worker_states,
                                                         worker_id, result)
                          IN  /\ results' = DictSet(results, worker_id, recorded)
                              /\ worker_states' =
                                    UpdatedWorkerStates(worker_states, worker_id,
                                                        task, result)
                              /\ calls' = [calls EXCEPT !.worker =
                                              IF asks THEN @ + 1 ELSE @]
                              /\ dispatchLog' = Append(dispatchLog,
                                    [index |-> idx, worker_id |-> worker_id,
                                     task |-> task,
                                     failed |-> llm.kind = "raise",
                                     raised |->
                                        WorkerStateRaises(worker_states,
                                                          worker_id),
                                     result |-> result,
                                     recorded |-> recorded])
                  /\ idx' = idx + 1
                  /\ pc' = AfterIteration(idx, Len(worker_assignments), llm)
    /\ UNCHANGED <<entry, other, user_query, conversation_history, context_gathered,
                   current_phase, final_response, error_message,
                   worker_assignments, response, trace, asked, memVars>>

\* mutant: the phase is left as it was
store_results_keeps_phase ==
    /\ pc = "store_results"
    /\ context_gathered' =
            update_context(context_gathered, "worker_results", results)
    /\ pc' = "synthesize_results"
    /\ UNCHANGED <<entry, other, user_query, conversation_history, worker_states,
                   current_phase, final_response, error_message, coordVars,
                   response, trace, calls, asked, dispatchLog, memVars>>

\* mutant: after the results are stored the plan is made again
store_results_replans ==
    /\ pc = "store_results"
    /\ context_gathered' =
            update_context(context_gathered, "worker_results", results)
    /\ current_phase' = "completed"
    /\ pc' = "execute_workers"
    /\ UNCHANGED <<entry, other, user_query, conversation_history,
                   worker_states, final_response, error_message, coordVars,
                   response, trace, calls, asked, dispatchLog, memVars>>

\* _execute_workers_node, lines 120-126: store what coordinate_workers
\* returned, set the phase; then the edge to synthesize_results (line 42)
store_results ==
    /\ pc = "store_results"
    /\ context_gathered' =
            update_context(context_gathered, "worker_results", results)
    /\ current_phase' = "completed"
    /\ pc' = "synthesize_results"
    /\ UNCHANGED <<entry, other, user_query, conversation_history, worker_states,
                   final_response, error_message, coordVars, response, trace,
                   calls, asked, dispatchLog, memVars>>

\* context_gathered.get("worker_results", {})
WorkerResults(context) == MapGet(context, "worker_results", <<>>)

\* mutant: the synthesis is made whatever the stored results are
HasWorkerResultsAlways(worker_results) == TRUE

\* if worker_results: (line 137)
HasWorkerResults(worker_results) == Len(worker_results) > 0

\* _synthesize_results_node, then the edge synthesize_results -> END (line 43)
synthesize_results_node ==
    /\ pc = "synthesize_results"
    /\ LET worker_results == WorkerResults(context_gathered)
           asks == HasWorkerResults(worker_results)
       IN  \E llm \in (IF asks THEN SynthesisOutcomes
                       ELSE {NoCall}) :
             IF asks
             THEN LET response_text == synthesize_results(llm)
                      final_message == Message(response_text, "supervisor",
                                               SUPERVISOR_DECISION)
                  IN  /\ final_response' = response_text
                      /\ conversation_history' =
                             add_message(conversation_history, final_message)
                      /\ context_gathered' =
                             update_memory_context(context_gathered, final_message)
                      /\ calls' = [calls EXCEPT !.synthesis = @ + 1]
                      /\ asked' = [asked EXCEPT !.synthesis = llm]
             ELSE UNCHANGED <<final_response, conversation_history,
                              context_gathered, calls, asked>>
    /\ pc' = "END"
    /\ trace' = Append(trace, "synthesize_results")
    /\ UNCHANGED <<entry, other, user_query, worker_states, current_phase,
                   error_message, coordVars, response, dispatchLog, memVars>>

\* len([w for w in worker_states.values() if w.is_busy])
ActiveWorkers(states) == Cardinality({w \in DOMAIN states : states[w].is_busy})

\* mutant: the fields of both phases are put into every success response
PrepareResponseAllFields(phase, history, context, states, final, error) ==
    LET base == [status |-> "success",
                 current_phase |-> phase,
                 supervisor_memory_size |-> Len(history),
                 active_workers |-> ActiveWorkers(states)]
    IN  IF Truthy(error)
        THEN MapPut(MapPut(base, "status", "error"), "error", error)
        ELSE MapPut(MapPut(MapPut(MapPut(MapPut(base,
                "action", IF phase = "completed" THEN "completed"
                          ELSE "gather_info"),
                "follow_up_questions", MapGet(context, "follow_up_questions", <<>>)),
                "final_response", final),
                "worker_results", WorkerResults(context)),
                "message", <<"Task completed successfully.">>)

\* process_query, lines 183-206: the response built from a final state
PrepareResponse(phase, history, context, states, final, error) ==
    LET base == [status |-> "success",
                 current_phase |-> phase,
                 supervisor_memory_size |-> Len(history),
                 active_workers |-> ActiveWorkers(states)]
    IN  IF Truthy(error)
        THEN MapPut(MapPut(base, "status", "error"), "error", error)
        ELSE IF phase = "gathering_info"
        THEN MapPut(MapPut(MapPut(base,
                "action", "gather_info"),
                "follow_up_questions", MapGet(context, "follow_up_questions", <<>>)),
                "message", <<"Please provide additional information to proceed.">>)
        ELSE IF phase = "completed"
        THEN MapPut(MapPut(MapPut(MapPut(base,
                "action", "completed"),
                "final_response", final),
                "worker_results", WorkerResults(context)),
                "message", <<"Task completed successfully.">>)
        ELSE base

\* the response process_query builds from the current state
Response ==
    PrepareResponse(current_phase, conversation_history, context_gathered,
                    worker_states, final_response, error_message)

\* graph.ainvoke returns the final state; process_query answers with it
ainvoke_return ==
    /\ pc = "END"
    /\ pc' = "returned"
    /\ response' = IF entry = "process_query" THEN Response ELSE response
    /\ UNCHANGED <<entry, other, stateVars, coordVars, trace, calls, asked, dispatchLog,
                   memVars>>

Next ==
    \/ process_query
    \/ graph_start
    \/ supervisor_analysis_update_memory
    \/ supervisor_analysis_node
    \/ gather_info_node
    \/ execute_workers_node
    \/ coordinate_workers
    \/ store_results
    \/ synthesize_results_node
    \/ ainvoke_return

Spec == Init /\ [][Next]_vars

\* the engine runs an enabled step: it is never suspended for ever, since
\* every collaborator call returns or raises
FairSpec == Spec /\ WF_vars(Next)

----------------------------------------------------------------------------
(* A SupervisorMemory on its own: any sequence of add_message calls, and    *)
(* get_recent_context calls with any limit in 0..MaxLimit                    *)

MemoryMessages ==
    {Message(<<"hello">>, "user", USER_INPUT),
     Message(<<"which tone?">>, "supervisor", SUPERVISOR_QUESTION)}

InitMemory ==
    /\ entry = "memory"
    /\ pc = "memory"
    /\ InitState
    /\ worker_states = EmptyDict
    /\ InitHistory
    /\ other = NoRun

memory_add_message ==
    /\ pc = "memory"
    /\ Len(log) < MaxAppends
    /\ \E message \in MemoryMessages :
         /\ conversation_history' = add_message(conversation_history, message)
         /\ log' = Append(log, message)
    /\ recent' = NoRecent
    /\ UNCHANGED <<entry, other, pc, user_query, context_gathered, worker_states,
                   current_phase, final_response, error_message, coordVars,
                   response, trace, calls, asked, dispatchLog>>

memory_get_recent_context ==
    /\ pc = "memory"
    /\ \E limit \in 0..MaxLimit :
         recent' = [called |-> TRUE, limit |-> limit,
                    value |-> get_recent_context(conversation_history, limit)]
    /\ UNCHANGED <<entry, other, pc, stateVars, coordVars, response, trace, calls, asked,
                   dispatchLog, log>>

NextMemory ==
    \/ memory_add_message
    \/ memory_get_recent_context

MemorySpec == InitMemory /\ [][NextMemory]_vars

----------------------------------------------------------------------------
(* Supervisor.update_memory on its own: up to MaxUpdates calls with         *)
(* messages of every kind, on a state whose history is empty or one short   *)
(* of the cap                                                               *)

UpdateMessages ==
    {Message(<<"hello">>, "user", USER_INPUT),
     Message(<<"which tone?">>, "supervisor", SUPERVISOR_QUESTION),
     Message(<<"sources found">>, "research_worker", WORKER_RESPONSE),
     Message(<<"draft written">>, "creative_worker", WORKER_RESPONSE),
     Message(<<"query analysed">>, "analysis_worker", WORKER_RESPONSE),
     Message(<<"final answer">>, "supervisor", SUPERVISOR_DECISION),
     Message(<<"find sources">>, "supervisor", WORKER_TASK)}

\* a history of nine messages, the oldest one recognisable
NineMessages ==
    [i \in 1..9 |->
        Message(IF i = 1 THEN <<"first">> ELSE <<"earlier">>, "user",
                USER_INPUT)]

InitUpdateMemory ==
    /\ entry = "update_memory"
    /\ pc = "update_memory"
    /\ user_query \in Queries
    /\ \/ /\ conversation_history = <<>>
          /\ context_gathered = EmptyDict
       \/ /\ conversation_history = NineMessages
          /\ context_gathered =
                update_context(EmptyDict, "last_user_input", <<"earlier">>)
    /\ worker_states = RegistryWorkerStates
    /\ current_phase \in {"gathering_info", "processing"}
    /\ final_response = NoneVal
    /\ error_message = NoneVal
    /\ InitHistory
    /\ other = NoRun

\* Supervisor.update_memory(message, state)
update_memory ==
    /\ pc = "update_memory"
    /\ Len(log) < MaxUpdates
    /\ \E message \in UpdateMessages :
         /\ conversation_history' = add_message(conversation_history, message)
         /\ context_gathered' = update_memory_context(context_gathered, message)
         /\ log' = Append(log, message)
    /\ UNCHANGED <<entry, other, pc, user_query, worker_states, current_phase,
                   final_response, error_message, coordVars, response, trace,
                   calls, asked, dispatchLog, recent>>

NextUpdateMemory == update_memory

UpdateMemorySpec == InitUpdateMemory /\ [][NextUpdateMemory]_vars

----------------------------------------------------------------------------
(* Two runs on one LangGraphWorkflow object, as two coroutines on one event *)
(* loop: one executes, the other is suspended, and the executing one gives  *)
(* way where it awaits a collaborator call, before it starts and after it   *)
(* has returned.  The variables hold the executing run, `other` the         *)
(* suspended one.                                                           *)

ConcurrentQueries == << <<"Help me write something">>, <<"Plan a trip">> >>

\* everything a run owns: its SystemState (workflow.py, line 175), the
\* locals of its coroutine frames, its return value, and its history
RunRecord ==
    [entry |-> entry, pc |-> pc, user_query |-> user_query,
     conversation_history |-> conversation_history,
     context_gathered |-> context_gathered, worker_states |-> worker_states,
     current_phase |-> current_phase, final_response |-> final_response,
     error_message |-> error_message,
     worker_assignments |-> worker_assignments, idx |-> idx,
     results |-> results, response |-> response, trace |-> trace,
     calls |-> calls, asked |-> asked, dispatchLog |-> dispatchLog]

\* a run that has not started: process_query called, or the graph invoked
\* on a fresh SystemState with one worker state per registry key
InitialRun(query, e) ==
    [entry |-> e,
     pc |-> IF e = "process_query" THEN "process_query" ELSE "START",
     user_query |-> query,
     conversation_history |-> <<>>,
     context_gathered |-> EmptyDict,
     worker_states |-> IF e = "process_query" THEN EmptyDict
                       ELSE RegistryWorkerStates,
     current_phase |-> "gathering_info", final_response |-> NoneVal,
     error_message |-> NoneVal,
     worker_assignments |-> <<>>, idx |-> 1, results |-> <<>>,
     response |-> NoResponse, trace |-> <<>>, calls |-> NoCalls,
     asked |-> NoAsked, dispatchLog |-> <<>>]

ConcurrentInit ==
    /\ entry \in {"process_query", "ainvoke"}
    /\ pc = InitialRun(ConcurrentQueries[1], entry).pc
    /\ user_query = ConcurrentQueries[1]
    /\ conversation_history = <<>>
    /\ context_gathered = EmptyDict
    /\ worker_states = InitialRun(ConcurrentQueries[1], entry).worker_states
    /\ current_phase = "gathering_info"
    /\ final_response = NoneVal
    /\ error_message = NoneVal
    /\ InitHistory
    /\ other \in {InitialRun(ConcurrentQueries[2], e) :
                    e \in {"process_query", "ainvoke"}}

\* the positions at which the next step of a run awaits a collaborator call
SuspensionPoints ==
    {"supervisor_analysis", "analyze_user_query", "gather_info",
     "execute_workers", "coordinate_workers", "synthesize_results"}

\* mutant: the memory is kept on the object both runs use (self.memory of
\* the Supervisor) and not in the run's SystemState
switch_shares_memory ==
    /\ Concurrent
    /\ other.pc # "returned"
    /\ pc \in SuspensionPoints \cup {"process_query", "START", "returned"}
    /\ other' = RunRecord
    /\ entry' = other.entry
    /\ pc' = other.pc
    /\ user_query' = other.user_query
    /\ worker_states' = other.worker_states
    /\ current_phase' = other.current_phase
    /\ final_response' = other.final_response
    /\ error_message' = other.error_message
    /\ worker_assignments' = other.worker_assignments
    /\ idx' = other.idx
    /\ results' = other.results
    /\ response' = other.response
    /\ trace' = other.trace
    /\ calls' = other.calls
    /\ asked' = other.asked
    /\ dispatchLog' = other.dispatchLog
    /\ UNCHANGED <<conversation_history, context_gathered, memVars>>

\* the event loop resumes the other coroutine: the executing run is
\* suspended with all it owns, the other continues with all it owns
switch ==
    /\ Concurrent
    /\ other.pc # "returned"
    /\ pc \in SuspensionPoints \cup {"process_query", "START", "returned"}
    /\ other' = RunRecord
    /\ entry' = other.entry
    /\ pc' = other.pc
    /\ user_query' = other.user_query
    /\ conversation_history' = other.conversation_history
    /\ context_gathered' = other.context_gathered
    /\ worker_states' = other.worker_states
    /\ current_phase' = other.current_phase
    /\ final_response' = other.final_response
    /\ error_message' = other.error_message
    /\ worker_assignments' = other.worker_assignments
    /\ idx' = other.idx
    /\ results' = other.results
    /\ response' = other.response
    /\ trace' = other.trace
    /\ calls' = other.calls
    /\ asked' = other.asked
    /\ dispatchLog' = other.dispatchLog
    /\ UNCHANGED memVars

ConcurrentNext ==
    \/ process_query
    \/ graph_start
    \/ supervisor_analysis_update_memory
    \/ supervisor_analysis_node
    \/ gather_info_node
    \/ execute_workers_node
    \/ coordinate_workers
    \/ store_results
    \/ synthesize_results_node
    \/ ainvoke_return
    \/ switch

ConcurrentSpec == ConcurrentInit /\ [][ConcurrentNext]_vars

----------------------------------------------------------------------------
(* Vocabulary of the properties *)

Done == pc \in {"END", "returned"}

Last(s) == s[Len(s)]

\* the edges between stage handlers (workflow.py, lines 28-43)
StageEdges ==
    { <<"supervisor_analysis", "gather_info">>,
      <<"supervisor_analysis", "execute_workers">>,
      <<"execute_workers", "synthesize_results">> }

\* the stages with an edge to END
FinalStages == {"supervisor_analysis", "gather_info", "synthesize_results"}

NoStageTwice ==
    \A i, j \in 1..Len(trace) : trace[i] = trace[j] => i = j

\* AnalyzeQuery obtained an Analysis object
AnalysisObtained ==
    /\ MapHas(context_gathered, "last_analysis")
    /\ context_gathered["last_analysis"].isObject

SufficientInfo ==
    AnalysisObtained /\ context_gathered["last_analysis"].has_sufficient_info = "true"

InsufficientInfo ==
    AnalysisObtained /\ context_gathered["last_analysis"].has_sufficient_info # "true"

ResponseAction ==
    IF "action" \in DOMAIN Response THEN Response["action"] ELSE "none"

\* the stored plan is an object whose assignments all carry worker_id and task
WellFormedPlan ==
    /\ MapHas(context_gathered, "execution_plan")
    /\ context_gathered["execution_plan"].isObject
    /\ \A i \in 1..Len(context_gathered["execution_plan"].worker_assignments) :
          context_gathered["execution_plan"].worker_assignments[i].missing = "none"

PlanAssignments == context_gathered["execution_plan"].worker_assignments

PlanWorkers == [i \in 1..Len(PlanAssignments) |-> PlanAssignments[i].worker_id]

RECURSIVE Distinct(_)
\* a sequence without its repeated elements, in order of first occurrence
Distinct(s) ==
    IF Len(s) = 0 THEN <<>>
    ELSE LET front == Distinct(SubSeq(s, 1, Len(s) - 1))
         IN  IF \E i \in 1..Len(front) : front[i] = Last(s)
             THEN front ELSE Append(front, Last(s))

\* the last dispatch to worker w, as an index of dispatchLog
LastDispatch(w) ==
    CHOOSE i \in 1..Len(dispatchLog) :
        /\ dispatchLog[i].worker_id = w
        /\ \A j \in 1..Len(dispatchLog) : dispatchLog[j].worker_id = w => j <= i

\* the stage has been executed
Ran(stage) == \E i \in 1..Len(trace) : trace[i] = stage

\* the step dispatches an assignment (execute_worker_task is called)
Dispatches == Len(dispatchLog') = Len(dispatchLog) + 1

IsWorkerError(text) ==
    /\ Len(text) = 2
    /\ text[1] \in {"Error in research worker: ", "Error in creative worker: "}

----------------------------------------------------------------------------
(* Properties *)

\* C1: the executed stages follow the transition table only: the first is
\* AnalyzeQuery, GatherInfo or ExecuteWorkers follow AnalyzeQuery,
\* SynthesizeResults follows ExecuteWorkers, the run ends only after
\* AnalyzeQuery, GatherInfo or SynthesizeResults, no stage runs twice and
\* none runs after Done.
StagesFollowTable ==
    [][ /\ trace' # trace =>
            /\ ~Done
            /\ Len(trace') = Len(trace) + 1
            /\ SubSeq(trace', 1, Len(trace)) = trace
            /\ IF trace = <<>> THEN Last(trace') = "supervisor_analysis"
               ELSE <<Last(trace), Last(trace')>> \in StageEdges
            /\ \A i \in 1..Len(trace) : trace[i] # Last(trace')
        /\ (pc' = "END" /\ pc # "END") =>
            /\ trace' # <<>>
            /\ Last(trace') \in FinalStages
        /\ Done => (trace' = trace /\ pc' \in {"END", "returned"}) ]_vars

FullRunReturned ==
    /\ pc = "returned"
    /\ trace = <<"supervisor_analysis", "execute_workers", "synthesize_results">>

\* C2: when the analysis says the information is insufficient, the plan is
\* never created, the coordinator never invoked, no worker dispatched, and
\* the run ends with phase gathering_info.
InsufficientInfoNeverCoordinates ==
    InsufficientInfo =>
        /\ calls.plan = 0
        /\ calls.coordinate = 0
        /\ calls.worker = 0
        /\ dispatchLog = <<>>
        /\ ~MapHas(context_gathered, "execution_plan")
        /\ ~MapHas(context_gathered, "worker_results")
        /\ Done => current_phase = "gathering_info"

GatherRunReturned ==
    /\ pc = "returned"
    /\ InsufficientInfo
    /\ context_gathered["last_analysis"].has_sufficient_info = "false"
    /\ trace = <<"supervisor_analysis", "gather_info">>

\* C3: when the analysis says the information is sufficient, the run
\* reaches Done with phase completed and a response whose action is
\* "completed", whatever the plan, worker and synthesis calls do.
SufficientInfoCompletes ==
    SufficientInfo ~>
        (Done /\ current_phase = "completed" /\ ResponseAction = "completed")

CompletedAfterFailures ==
    /\ pc = "returned"
    /\ SufficientInfo
    /\ current_phase = "completed"
    /\ ResponseAction = "completed"
    /\ \E i \in 1..Len(dispatchLog) : dispatchLog[i].failed

FinalResponseNonEmpty ==
    (Done /\ SufficientInfo) => Truthy(final_response)

\* C6: every run ends (process_query returns, or the graph returns its final
\* state), and no stage runs more than once.
RunTerminates ==
    /\ <>(pc = "returned" /\ (entry = "process_query" => DOMAIN response # {}))
    /\ [][NoStageTwice']_vars

ReturnedAfterThreeStages ==
    /\ pc = "returned"
    /\ Len(trace) = 3
    /\ NoStageTwice

\* C7: the history never holds more than 10 messages, and once more than 10
\* were appended it is the 10 most recent ones in the order appended.
HistoryKeepsMostRecent ==
    /\ Len(conversation_history) <= 10
    /\ Len(log) <= 10 => conversation_history = log
    /\ Len(log) > 10 =>
          conversation_history = SubSeq(log, Len(log) - 9, Len(log))

OldestDropped ==
    /\ Len(log) = 12
    /\ Len(conversation_history) = 10
    /\ log[1] # log[3]
    /\ conversation_history[1] = log[3]

Min(a, b) == IF a < b THEN a ELSE b

\* C8: get_recent_context(n) returns the last min(n, len(history)) messages
\* in order, for every n >= 0.
RecentContextIsLastN ==
    recent.called =>
        LET n == Min(recent.limit, Len(conversation_history))
        IN  recent.value =
                SubSeq(conversation_history,
                       Len(conversation_history) - n + 1,
                       Len(conversation_history))

\* the text an iteration of the loop records: for a worker whose
\* collaborator call raised, for an id whose state could not be created, for
\* a registered worker that answered, for an unregistered id
IsDispatchText(dispatch, text) ==
    IF dispatch.raised
    THEN text = <<"Error executing task: ", ValidationError>>
    ELSE IF dispatch.failed
    THEN /\ Len(text) = 2
         /\ text[1] = (IF dispatch.worker_id = "research_worker"
                       THEN "Error in research worker: "
                       ELSE "Error in creative worker: ")
         /\ text[2] \in Causes
    ELSE IF dispatch.worker_id \in WORKER_REGISTRY
    THEN text = <<"worker output">>
    ELSE text = <<"Worker ", dispatch.worker_id, " not found">>

\* the position of the first assignment of the plan lacking worker_id or
\* task, or one past the end of the plan
FirstMalformed ==
    CHOOSE m \in 1..(Len(PlanAssignments) + 1) :
        /\ m <= Len(PlanAssignments) => PlanAssignments[m].missing # "none"
        /\ \A j \in 1..(m - 1) : PlanAssignments[j].missing = "none"

FatalFailureEndsRun ==
    [][ /\ (~Truthy(error_message) /\ Truthy(error_message')) =>
            /\ pc' = "END"
            /\ Len(trace') = Len(trace) + 1
        /\ Truthy(error_message) =>
            /\ trace' = trace
            /\ error_message' = error_message ]_vars

AnalysisFailureEnded ==
    /\ pc = "returned"
    /\ Truthy(error_message)
    /\ trace = <<"supervisor_analysis">>

\* process_query has returned its response
Returned == pc = "returned" /\ entry = "process_query"

\* C11: the response of process_query has status "error" only when a stage
\* handler set error_message; every other run returns status "success".
StatusErrorOnlyWhenFatal ==
    Returned => (response["status"] = "error" <=> Truthy(error_message))

\* the analysis collaborator's output was not a well-formed Analysis object:
\* the call raised, the text was not JSON, or the JSON value was no object
MalformedAnalysisOutput ==
    /\ MapHas(context_gathered, "last_analysis")
    /\ LET analysis == context_gathered["last_analysis"]
       IN  \/ ~analysis.isObject
           \/ analysis = ParseFallbackAnalysis
           \/ \E cause \in Causes : analysis = ErrorFallbackAnalysis(cause)

\* C12: an analysis output that is not a well-formed Analysis object is
\* absorbed: error_message stays unset and the run ends with status
\* "success" and action "gather_info".
MalformedAnalysisAbsorbed ==
    (Done /\ MalformedAnalysisOutput) =>
        /\ ~Truthy(error_message)
        /\ Response["status"] = "success"
        /\ ResponseAction = "gather_info"

\* C13: every response returned by process_query, on success and on failure
\* alike, contains current_phase, supervisor_memory_size (the number of
\* retained history entries) and active_workers (the number of busy workers).
ResponseAlwaysHasCounters ==
    Returned =>
        /\ {"current_phase", "supervisor_memory_size", "active_workers"}
              \subseteq DOMAIN response
        /\ response["current_phase"] = current_phase
        /\ response["supervisor_memory_size"] = Len(conversation_history)
        /\ response["active_workers"] = ActiveWorkers(worker_states)

\* the response of the run: what process_query returned, or, for a run of
\* the compiled graph, what lines 183-206 build from its final state
RunResponse == IF entry = "process_query" THEN response ELSE Response

RunResponseAction ==
    IF "action" \in DOMAIN RunResponse THEN RunResponse["action"] ELSE "none"

\* C14: a response with status "success" carries the action of the final
\* phase: gathering_info gives action "gather_info" with follow_up_questions
\* and neither worker_results nor final_response; completed gives action
\* "completed" with final_response and worker_results; no successful run
\* ends in phase processing.
SuccessActionMatchesPhase ==
    (Done /\ RunResponse["status"] = "success") =>
        /\ current_phase \in {"gathering_info", "completed"}
        /\ RunResponse["current_phase"] = current_phase
        /\ current_phase = "gathering_info" =>
              /\ RunResponseAction = "gather_info"
              /\ "follow_up_questions" \in DOMAIN RunResponse
              /\ "worker_results" \notin DOMAIN RunResponse
              /\ "final_response" \notin DOMAIN RunResponse
        /\ current_phase = "completed" =>
              /\ RunResponseAction = "completed"
              /\ "follow_up_questions" \notin DOMAIN RunResponse
              /\ {"final_response", "worker_results"} \subseteq DOMAIN RunResponse
              /\ RunResponse["final_response"] = final_response
              /\ RunResponse["worker_results"] = WorkerResults(context_gathered)

CompletedResponseBuilt ==
    /\ pc = "returned"
    /\ RunResponse["status"] = "success"
    /\ current_phase = "completed"
    /\ RunResponseAction = "completed"
    /\ RunResponse["final_response"] = <<"final answer">>
    /\ Len(RunResponse["worker_results"]) = 2

\* C15: whenever a run ends with action "gather_info" after an analysis with
\* has_sufficient_info false, follow_up_questions in the response is
\* non-empty, for every analysis and every follow-up collaborator output.
FollowUpQuestionsNonEmpty ==
    (/\ Done
     /\ InsufficientInfo
     /\ context_gathered["last_analysis"].has_sufficient_info = "false"
     /\ RunResponseAction = "gather_info") =>
        Len(RunResponse["follow_up_questions"]) > 0

\* C16: dispatching a task to a worker id outside the registry returns the
\* text "Worker <id> not found", the same for the same id on every call,
\* does not raise (the loop goes on and the text is recorded as that id's
\* result, unless the id is no text and the creation of its worker state
\* raises afterwards), and makes no worker or collaborator call.
UnregisteredWorkerNotFound ==
    [][ (Dispatches /\ Last(dispatchLog').worker_id \notin WORKER_REGISTRY) =>
            LET dispatch == Last(dispatchLog')
            IN  /\ dispatch.result =
                      <<"Worker ",
                        IF dispatch.worker_id = "#null" THEN "None"
                        ELSE dispatch.worker_id,
                        " not found">>
                /\ \A i \in 1..Len(dispatchLog) :
                      dispatchLog[i].worker_id = dispatch.worker_id =>
                          dispatchLog[i].result = dispatch.result
                /\ ~dispatch.failed
                /\ DictGet(results', dispatch.worker_id) =
                      IF dispatch.worker_id = "#null"
                      THEN <<"Error executing task: ", ValidationError>>
                      ELSE dispatch.result
                /\ ~DictHas(results', "error")
                /\ idx' = idx + 1
                /\ calls' = calls ]_vars

UnregisteredDispatchedTwice ==
    /\ pc = "returned"
    /\ Len(dispatchLog) = 2
    /\ dispatchLog[1].worker_id = "analysis_worker"
    /\ dispatchLog[2].worker_id = "analysis_worker"
    /\ dispatchLog[1].task # dispatchLog[2].task
    /\ dispatchLog[1].result = <<"Worker ", "analysis_worker", " not found">>
    /\ dispatchLog[2].result = dispatchLog[1].result
    /\ calls.worker = 0

\* C17: when the collaborator raises during analyze_user_query the analysis
\* is has_sufficient_info false, confidence 0.0, missing_information the
\* single item "Error in analysis: <cause>" and follow_up_questions the
\* single apology question; when it returns text that is not JSON the
\* analysis is the parse fallback with missing_information
\* ["Unable to parse analysis"] and follow_up_questions
\* ["Could you please rephrase your request?"].
AnalysisFallbackExact ==
    calls.analysis > 0 =>
        LET analysis == context_gathered["last_analysis"]
            llm == asked.analysis
        IN  /\ llm.kind = "raise" =>
                  /\ analysis.isObject
                  /\ analysis.has_sufficient_info = "false"
                  /\ analysis.confidence_score = "0.0"
                  /\ analysis.missing_information =
                        << <<"Error in analysis: ", llm.cause>> >>
                  /\ analysis.follow_up_questions =
                        << <<"There was an error processing your request. Please try again.">> >>
            /\ (llm.kind = "content" /\ ~llm.content.json) =>
                  /\ analysis.isObject
                  /\ analysis.has_sufficient_info = "false"
                  /\ analysis.confidence_score = "0.0"
                  /\ analysis.missing_information =
                        << <<"Unable to parse analysis">> >>
                  /\ analysis.follow_up_questions =
                        << <<"Could you please rephrase your request?">> >>

AnalysisCallRaised ==
    /\ pc = "returned"
    /\ asked.analysis = Raises("connection refused")
    /\ context_gathered["last_analysis"].missing_information =
          << <<"Error in analysis: ", "connection refused">> >>
    /\ trace = <<"supervisor_analysis", "gather_info">>

\* C19: once process_query has built the initial state, worker_states holds
\* exactly one WorkerState per registry key, each not busy and without task
\* or result until the first stage runs, and the run goes on into the
\* analysis stage.
WorkerStatesInitialised ==
    (entry = "process_query" /\ pc # "process_query") =>
        /\ DOMAIN worker_states = WORKER_REGISTRY
        /\ trace = <<>> =>
              \A w \in WORKER_REGISTRY :
                  worker_states[w] =
                      [worker_id |-> w, current_task |-> NoneVal,
                       task_result |-> NoneVal, is_busy |-> FALSE]
        /\ pc = "returned" =>
              /\ trace # <<>>
              /\ trace[1] = "supervisor_analysis"

\* an assignment of the plan names a dependency that has no result when the
\* assignment is dispatched, or whose worker failed
DependencyUnmet(i) ==
    \E k \in 1..Len(PlanAssignments[i].dependencies) :
        LET dependency == PlanAssignments[i].dependencies[k]
        IN  \/ \A j \in 1..(i - 1) : PlanAssignments[j].worker_id # dependency
            \/ \E j \in 1..(i - 1) : /\ dispatchLog[j].worker_id = dependency
                                     /\ dispatchLog[j].failed

\* C20: coordinate_workers dispatches the assignments one after another in
\* the order of the plan's list: the dispatch of assignment i happens when
\* exactly the i-1 assignments before it have returned or failed, and every
\* assignment is dispatched, also one whose dependency has not run, has
\* failed or comes later in the list.
DispatchInListOrder ==
    /\ [][ Dispatches =>
             LET dispatch == Last(dispatchLog')
             IN  /\ Len(dispatchLog) = idx - 1
                 /\ dispatch.index = idx
                 /\ idx' = idx + 1
                 /\ dispatch.worker_id = PlanAssignments[idx].worker_id
                 /\ dispatch.task = PlanAssignments[idx].task
                 /\ SubSeq(dispatchLog', 1, Len(dispatchLog)) = dispatchLog ]_vars
    /\ []((pc \in {"store_results", "synthesize_results", "END", "returned"}
           /\ WellFormedPlan) =>
             /\ Len(dispatchLog) = Len(PlanAssignments)
             /\ \A i \in 1..Len(dispatchLog) :
                   /\ dispatchLog[i].worker_id = PlanAssignments[i].worker_id
                   /\ dispatchLog[i].task = PlanAssignments[i].task)

DispatchedBeforeItsDependency ==
    /\ pc = "returned"
    /\ WellFormedPlan
    /\ Len(PlanAssignments) = 2
    /\ PlanAssignments[1].dependencies = <<"creative_worker">>
    /\ PlanAssignments[2].worker_id = "creative_worker"
    /\ PlanAssignments[2].dependencies = <<"research_worker">>
    /\ DependencyUnmet(1)
    /\ DependencyUnmet(2)
    /\ Len(dispatchLog) = 2
    /\ dispatchLog[1].worker_id = "research_worker"
    /\ dispatchLog[1].failed
    /\ dispatchLog[2].worker_id = "creative_worker"
    /\ ~dispatchLog[2].failed

\* what a run holds stems from its own query and its own collaborator calls
OwnStateOnly(run) ==
    /\ Len(run.conversation_history) =
          (IF run.pc = "analyze_user_query" THEN 1 ELSE run.calls.analysis)
              + run.calls.followup + run.calls.synthesis
    /\ \A i \in 1..Len(run.conversation_history) :
          run.conversation_history[i].sender = "user" =>
              run.conversation_history[i].content = run.user_query
    /\ MapHas(run.context_gathered, "last_user_input") =>
          run.context_gathered["last_user_input"] = run.user_query
    /\ MapHas(run.context_gathered, "last_analysis") =>
          run.context_gathered["last_analysis"] =
              analyze_user_query(run.asked.analysis)
    /\ MapHas(run.context_gathered, "execution_plan") =>
          run.context_gathered["execution_plan"] =
              create_execution_plan(run.asked.plan)
    /\ Truthy(run.final_response) =>
          run.final_response = synthesize_results(run.asked.synthesis)
    /\ Len(run.dispatchLog) = run.calls.worker
    /\ (run.pc = "returned" /\ run.entry = "process_query") =>
          run.response =
              WorkflowExecutionError("name 'WorkerState' is not defined")

\* C18: the state of a run is never shared: a step of one run leaves
\* everything the suspended run owns as it is, a suspended run resumes with
\* exactly what it was suspended with, and each run's history, context,
\* results and response stem from its own query and its own collaborator
\* outputs, as when it runs alone.
RunsDoNotInterfere ==
    /\ [][ IF user_query' = user_query
           THEN other' = other
           ELSE other' = RunRecord /\ RunRecord' = other ]_vars
    /\ [](OwnStateOnly(RunRecord) /\ OwnStateOnly(other))

BothRunsUnderWay ==
    /\ user_query = ConcurrentQueries[1]
    /\ pc = "synthesize_results"
    /\ Len(dispatchLog) = 2
    /\ dispatchLog[1].failed
    /\ Len(conversation_history) = 1
    /\ conversation_history[1].content = ConcurrentQueries[1]
    /\ other.user_query = ConcurrentQueries[2]
    /\ other.pc = "synthesize_results"
    /\ Len(other.dispatchLog) = 2
    /\ ~other.dispatchLog[1].failed
    /\ Len(other.conversation_history) = 1
    /\ other.conversation_history[1].content = ConcurrentQueries[2]

\* C21: in every reachable state of a run every worker state has is_busy
\* false; so no "Worker <id> is busy" result is ever recorded, no assignment
\* is skipped for being busy (every assignment with worker_id and task
\* reached by the loop is dispatched), and active_workers in the response
\* is 0.
NoWorkerEverBusy ==
    /\ [](/\ \A w \in DOMAIN worker_states : ~worker_states[w].is_busy
          /\ \A i \in 1..Len(results) :
                results[i][2] # <<"Worker ", results[i][1], " is busy">>
          /\ \A i \in 1..Len(WorkerResults(context_gathered)) :
                WorkerResults(context_gathered)[i][2] #
                    <<"Worker ", WorkerResults(context_gathered)[i][1], " is busy">>
          /\ Response["active_workers"] = 0
          /\ "active_workers" \in DOMAIN RunResponse =>
                RunResponse["active_workers"] = 0)
    /\ [][ (pc = "coordinate_workers"
            /\ worker_assignments[idx].missing = "none") => Dispatches ]_vars

SameWorkerDispatchedAgain ==
    /\ pc = "returned"
    /\ Len(dispatchLog) = 2
    /\ dispatchLog[1].worker_id = "research_worker"
    /\ dispatchLog[2].worker_id = "research_worker"
    /\ worker_states["research_worker"].task_result = dispatchLog[2].result
    /\ ~worker_states["research_worker"].is_busy
    /\ Response["active_workers"] = 0

\* the number of collaborator calls made so far
CollaboratorCalls ==
    calls.analysis + calls.followup + calls.plan + calls.worker
        + calls.synthesis

\* C22: within one run the collaborator is called at most once for the
\* analysis, for the follow-up questions, for the plan and for the
\* synthesis, and at most once per assignment of the plan; a call that
\* failed is not repeated: its fallback value or error text is what the run
\* keeps.
NoRetries ==
    /\ [](/\ calls.analysis <= 1
          /\ calls.followup <= 1
          /\ calls.plan <= 1
          /\ calls.synthesis <= 1
          /\ calls.worker <= Len(dispatchLog)
          /\ Len(dispatchLog) <= Len(worker_assignments)
          /\ \A i \in 1..Len(dispatchLog) : dispatchLog[i].index = i
          /\ asked.analysis.kind = "raise" =>
                context_gathered["last_analysis"] =
                    ErrorFallbackAnalysis(asked.analysis.cause)
          /\ asked.followup.kind = "raise" =>
                /\ Len(context_gathered["follow_up_questions"]) = 1
                /\ context_gathered["follow_up_questions"][1][1] =
                      "Could you provide more details about: "
          /\ asked.plan.kind = "raise" =>
                context_gathered["execution_plan"] = EmptyPlan
          /\ asked.synthesis.kind = "raise" =>
                final_response =
                    <<"Error synthesizing results: ", asked.synthesis.cause>>
          /\ \A i \in 1..Len(dispatchLog) :
                dispatchLog[i].failed => IsWorkerError(dispatchLog[i].result))
    /\ [][CollaboratorCalls' <= CollaboratorCalls + 1]_vars

EveryLaterCallFailedOnce ==
    /\ pc = "returned"
    /\ calls = [analysis |-> 1, followup |-> 0, plan |-> 1, coordinate |-> 1,
                worker |-> 2, synthesis |-> 1]
    /\ asked.plan.kind = "content"
    /\ ~asked.plan.content.json
    /\ dispatchLog[1].failed
    /\ dispatchLog[2].failed
    /\ asked.synthesis.kind = "raise"

\* C23: a run that enters ExecuteWorkers creates the plan once and consumes
\* it once: create_execution_plan is called once, coordinate_workers once
\* and on the plan stored in the context, and synthesize_results only after
\* coordinate_workers has returned and its results were stored; a run that
\* does not enter ExecuteWorkers calls none of them.
PlanCreatedAndConsumedOnce ==
    /\ Ran("execute_workers") =>
          /\ calls.plan = 1
          /\ calls.coordinate = 1
          /\ MapHas(context_gathered, "execution_plan")
          /\ context_gathered["execution_plan"] =
                create_execution_plan(asked.plan)
          /\ context_gathered["execution_plan"].isObject =>
                worker_assignments = PlanAssignments
    /\ ~Ran("execute_workers") =>
          /\ calls.plan = 0
          /\ calls.coordinate = 0
          /\ calls.synthesis = 0
          /\ dispatchLog = <<>>
          /\ ~Ran("synthesize_results")
    /\ pc \in {"coordinate_workers", "store_results"} =>
          /\ Ran("execute_workers")
          /\ ~MapHas(context_gathered, "worker_results")
          /\ calls.synthesis = 0
    /\ MapHas(context_gathered, "worker_results") =>
          /\ pc \in {"synthesize_results", "END", "returned"}
          /\ WorkerResults(context_gathered) = results
    /\ (calls.synthesis > 0 \/ Ran("synthesize_results")) =>
          /\ MapHas(context_gathered, "worker_results")
          /\ pc \in {"END", "returned"}

PlanConsumedThenSynthesized ==
    /\ pc = "returned"
    /\ trace = <<"supervisor_analysis", "execute_workers", "synthesize_results">>
    /\ asked.plan.kind = "content"
    /\ asked.plan.content.json
    /\ Len(worker_assignments) = 2
    /\ Len(dispatchLog) = 2
    /\ calls.plan = 1
    /\ calls.coordinate = 1
    /\ calls.synthesis = 1

\* C24: create_execution_plan does not raise: for text that is not JSON it
\* returns the two-step plan (research_worker without dependencies, then
\* creative_worker depending on research_worker, order research then
\* creative); when the call itself fails it returns the plan without
\* assignments and without order.
PlanFallbackExact ==
    calls.plan > 0 =>
        LET plan == context_gathered["execution_plan"]
            llm == asked.plan
        IN  /\ ~Truthy(error_message)
            /\ (llm.kind = "content" /\ ~llm.content.json) =>
                  /\ plan.isObject
                  /\ Len(plan.worker_assignments) = 2
                  /\ plan.worker_assignments[1].missing = "none"
                  /\ plan.worker_assignments[1].worker_id = "research_worker"
                  /\ plan.worker_assignments[1].dependencies = <<>>
                  /\ plan.worker_assignments[2].missing = "none"
                  /\ plan.worker_assignments[2].worker_id = "creative_worker"
                  /\ plan.worker_assignments[2].dependencies =
                        <<"research_worker">>
                  /\ plan.execution_order =
                        <<"research_worker", "creative_worker">>
            /\ llm.kind = "raise" =>
                  /\ plan.isObject
                  /\ plan.worker_assignments = <<>>
                  /\ plan.execution_order = <<>>

TwoStepPlanExecuted ==
    /\ pc = "returned"
    /\ asked.plan.kind = "content"
    /\ ~asked.plan.content.json
    /\ Len(dispatchLog) = 2
    /\ dispatchLog[1].worker_id = "research_worker"
    /\ dispatchLog[1].task = <<"Gather information related to the query">>
    /\ dispatchLog[2].worker_id = "creative_worker"
    /\ dispatchLog[2].task =
          <<"Process and present the information creatively">>

\* ExecuteWorkers ran on a plan that is no object or has an assignment
\* without worker_id or task, and coordinate_workers has returned
CoordinationHasFailed ==
    /\ Ran("execute_workers")
    /\ ~WellFormedPlan
    /\ pc \in {"store_results", "synthesize_results", "END", "returned"}

\* C25: when coordinate_workers fails outside a worker's dispatch (the plan
\* is no mapping, or an assignment lacks worker_id or task) it does not
\* raise and returns the single entry "error", without any result of the
\* assignments dispatched before; the run still ends with phase completed.
CoordinationFailureGivesErrorOnly ==
    CoordinationHasFailed =>
        /\ Len(results) = 1
        /\ results[1][1] = "error"
        /\ results[1][2][1] = "Coordination error: "
        /\ results[1][2][2] \in
              {"'worker_id'", "'task'"}
                  \cup {NotADictError(t) : t \in NonObjectTypes}
        /\ ~Truthy(error_message)
        /\ pc # "store_results" =>
              /\ WorkerResults(context_gathered) = results
              /\ current_phase = "completed"
        /\ Done => RunResponseAction = "completed"

FailedAfterOneDispatch ==
    /\ pc = "returned"
    /\ CoordinationHasFailed
    /\ Len(dispatchLog) = 1
    /\ dispatchLog[1].worker_id = "research_worker"
    /\ dispatchLog[1].result = <<"worker output">>
    /\ worker_states["research_worker"].task_result = <<"worker output">>
    /\ DictKeys(WorkerResults(context_gathered)) = <<"error">>
    /\ current_phase = "completed"

\* the lines of a collaborator output that are non-empty and hold a
\* question mark, as indices
QuestionLines(lines) ==
    {i \in 1..Len(lines) : lines[i].text # "" /\ lines[i].text \in QuestionTexts}

\* C26: generate_follow_up_questions returns at most 3 questions, each the
\* text of a non-empty line of the collaborator output that contains a
\* question mark, in the order of the output (the first ones); when the
\* call fails it returns exactly one question, which names the
\* missing-information items.
FollowUpQuestionsFromOutput ==
    calls.followup > 0 =>
        LET questions == context_gathered["follow_up_questions"]
            missing_info == LastAnalysis(context_gathered).missing_information
            llm == asked.followup
        IN  /\ Len(questions) <= 3
            /\ llm.kind = "content" =>
                  LET kept == QuestionLines(llm.content)
                  IN  /\ Len(questions) = Min(3, Cardinality(kept))
                      /\ \A j \in 1..Len(questions) :
                            \E i \in kept :
                                /\ Cardinality({k \in kept : k < i}) = j - 1
                                /\ questions[j] = <<llm.content[i].text>>
            /\ llm.kind = "raise" =>
                  /\ Len(questions) = 1
                  /\ questions[1][1] = "Could you provide more details about: "
                  /\ \A m \in 1..Len(missing_info) :
                        \A f \in 1..Len(missing_info[m]) :
                            \E k \in 2..Len(questions[1]) :
                                questions[1][k] = missing_info[m][f]

FourQuestionsCutToThree ==
    /\ pc = "returned"
    /\ asked.followup.kind = "content"
    /\ Cardinality(QuestionLines(asked.followup.content)) = 4
    /\ context_gathered["follow_up_questions"] =
          << <<"What topic?">>, <<"Which tone?">>, <<"How long?">> >>
    /\ Response["follow_up_questions"] = context_gathered["follow_up_questions"]

\* C27: a failure of the synthesis collaborator does not abort the run:
\* synthesize_results returns an error-describing text, final_response is
\* that text, error_message stays unset, and the run ends with phase
\* completed and status "success".
SynthesisFailureAbsorbed ==
    asked.synthesis.kind = "raise" =>
        /\ final_response =
              <<"Error synthesizing results: ", asked.synthesis.cause>>
        /\ Last(conversation_history).content = final_response
        /\ Last(conversation_history).message_type = SUPERVISOR_DECISION
        /\ ~Truthy(error_message)
        /\ Done
        /\ current_phase = "completed"
        /\ RunResponse["status"] = "success"
        /\ RunResponse["final_response"] = final_response

SynthesisAloneFailed ==
    /\ pc = "returned"
    /\ asked.synthesis = Raises("connection refused")
    /\ Len(dispatchLog) = 2
    /\ ~dispatchLog[1].failed
    /\ ~dispatchLog[2].failed
    /\ final_response = <<"Error synthesizing results: ", "connection refused">>
    /\ RunResponse["status"] = "success"

\* C28: update_memory appends the message to the history, under the cap of
\* 10, for every message kind; it sets last_user_input in the context only
\* for a user_input message and worker_<sender>_last_response only for a
\* worker_response message, and leaves the context as it is for every other
\* kind; worker states, phase, final response and error message are never
\* changed.
UpdateMemoryFrame ==
    [][ LET message == Last(log')
            kept == IF Len(conversation_history) < 10
                    THEN conversation_history
                    ELSE Tail(conversation_history)
            key == IF message.message_type = "user_input"
                   THEN "last_user_input"
                   ELSE IF message.sender = "research_worker"
                   THEN "worker_research_worker_last_response"
                   ELSE IF message.sender = "creative_worker"
                   THEN "worker_creative_worker_last_response"
                   ELSE "worker_analysis_worker_last_response"
        IN  /\ Len(log') = Len(log) + 1
            /\ conversation_history' = Append(kept, message)
            /\ Len(conversation_history') <= 10
            /\ IF message.message_type \in {"user_input", "worker_response"}
               THEN /\ DOMAIN context_gathered' =
                          DOMAIN context_gathered \cup {key}
                    /\ context_gathered'[key] = message.content
                    /\ \A k \in DOMAIN context_gathered \ {key} :
                          context_gathered'[k] = context_gathered[k]
               ELSE context_gathered' = context_gathered
            /\ UNCHANGED <<user_query, worker_states, current_phase,
                           final_response, error_message>> ]_vars

EveryKindAtTheCap ==
    /\ entry = "update_memory"
    /\ Len(log) = 3
    /\ log[1].message_type = "worker_response"
    /\ log[2].message_type = "worker_task"
    /\ log[3].message_type = "supervisor_decision"
    /\ Len(conversation_history) = 10
    /\ conversation_history[1].content = <<"earlier">>
    /\ conversation_history[10] = log[3]
    /\ DOMAIN context_gathered =
          {"last_user_input", "worker_research_worker_last_response"}
    /\ context_gathered["last_user_input"] = <<"earlier">>

\* C29: after the analysis stage completes without an error, the phase it
\* wrote and the route taken agree: the phase is processing exactly when the
\* run goes to execute_workers and gathering_info exactly when it goes to
\* gather_info; the route is a function of error_message and of the
\* last_analysis entry of the context alone.
PhaseAndRouteAgree ==
    [][ (pc = "analyze_user_query" /\ pc' # pc) =>
          IF Truthy(error_message')
          THEN pc' = "END"
          ELSE /\ pc' \in {"execute_workers", "gather_info"}
               /\ current_phase' \in {"processing", "gathering_info"}
               /\ pc' = "execute_workers" <=> current_phase' = "processing"
               /\ pc' = "gather_info" <=> current_phase' = "gathering_info"
               /\ pc' = "execute_workers" <=> SufficientInfo'
               /\ pc' = "gather_info" <=> InsufficientInfo' ]_vars

RoutedToGatherInfoWhileGathering ==
    /\ entry = "ainvoke"
    /\ trace = <<"supervisor_analysis">>
    /\ pc = "gather_info"
    /\ current_phase = "gathering_info"
    /\ InsufficientInfo
    /\ ~Truthy(error_message)
    /\ asked.analysis.kind = "content"

\* coordinate_workers has returned the results of its dispatches
CoordinationReturnedResults ==
    /\ Ran("execute_workers")
    /\ WellFormedPlan
    /\ pc \in {"store_results", "synthesize_results", "END", "returned"}

\* C30 as stated: after coordinate_workers returns normally every worker id
\* whose dispatch returned a result has a worker state holding that result.
EveryDispatchedIdHasState ==
    CoordinationReturnedResults =>
        \A i \in 1..Len(dispatchLog) :
            LET w == dispatchLog[i].worker_id
            IN  /\ MapHas(worker_states, w)
                /\ worker_states[w].task_result = DictGet(results, w)
                /\ ~worker_states[w].is_busy

\* C30 as amended: after coordinate_workers returns normally, every
\* dispatched worker id that is a text has a worker state (created when the
\* id had none, registered or not) whose task_result is the id's entry of
\* the worker results, whose current_task is the task of the last
\* assignment dispatched to the id and whose is_busy is false. For an id
\* that is no text (null) the creation of the state raises: the id's entry
\* is the "Error executing task" text, the id has no state, and that
\* iteration leaves all worker states as they are. The states of ids that
\* were not dispatched are as they were at the start of the run.
WorkerStatesAfterCoordination ==
    /\ [](CoordinationReturnedResults =>
            /\ Len(dispatchLog) = Len(worker_assignments)
            /\ \A i \in 1..Len(dispatchLog) :
                  LET w == dispatchLog[i].worker_id
                      last == dispatchLog[LastDispatch(w)]
                  IN  /\ DictHas(results, w)
                      /\ last.task = worker_assignments[last.index].task
                      /\ pc # "store_results" =>
                            WorkerResults(context_gathered) = results
                      /\ IF w = "#null"
                         THEN /\ ~MapHas(worker_states, w)
                              /\ dispatchLog[i].raised
                              /\ DictGet(results, w) =
                                    <<"Error executing task: ", ValidationError>>
                         ELSE /\ MapHas(worker_states, w)
                              /\ ~dispatchLog[i].raised
                              /\ worker_states[w].worker_id = w
                              /\ worker_states[w].task_result = DictGet(results, w)
                              /\ worker_states[w].task_result = last.result
                              /\ worker_states[w].current_task = last.task
                              /\ ~worker_states[w].is_busy
            /\ \A w \in DOMAIN worker_states :
                  (\A i \in 1..Len(dispatchLog) : dispatchLog[i].worker_id # w) =>
                      worker_states[w] = WorkerState(w))
    /\ [][ (Dispatches /\ Last(dispatchLog').raised) =>
              worker_states' = worker_states ]_vars

StateCreationRaisedForNullId ==
    /\ pc = "synthesize_results"
    /\ CoordinationReturnedResults
    /\ Len(dispatchLog) = 2
    /\ dispatchLog[1].worker_id = "analysis_worker"
    /\ dispatchLog[2].worker_id = "#null"
    /\ dispatchLog[2].raised
    /\ dispatchLog[2].result = <<"Worker ", "None", " not found">>
    /\ DOMAIN worker_states = {"analysis_worker"}
    /\ worker_states["analysis_worker"].task_result =
          <<"Worker ", "analysis_worker", " not found">>
    /\ DictGet(results, "#null") = <<"Error executing task: ", ValidationError>>

\* C31: the synthesis stage calls the synthesis collaborator exactly when
\* the stored worker results are not empty; only then is final_response
\* assigned and a supervisor_decision message appended to the history. A
\* run that never enters the synthesis stage ends with final_response unset
\* and has made no synthesis call.
SynthesisOnlyForResults ==
    /\ [][ (pc = "synthesize_results" /\ pc' # pc) =>
             IF Len(WorkerResults(context_gathered)) > 0
             THEN /\ calls'.synthesis = calls.synthesis + 1
                  /\ asked'.synthesis.kind \in {"raise", "content"}
                  /\ final_response' # NoneVal
                  /\ Len(conversation_history') =
                        Min(Len(conversation_history) + 1, 10)
                  /\ Last(conversation_history') =
                        Message(final_response', "supervisor",
                                "supervisor_decision")
             ELSE /\ calls'.synthesis = calls.synthesis
                  /\ asked'.synthesis = asked.synthesis
                  /\ UNCHANGED <<final_response, conversation_history,
                                 context_gathered>> ]_vars
    /\ [](~Ran("synthesize_results") =>
             /\ final_response = NoneVal
             /\ calls.synthesis = 0
             /\ \A i \in 1..Len(conversation_history) :
                   conversation_history[i].message_type # "supervisor_decision")
    /\ []((final_response # NoneVal) <=> (calls.synthesis = 1))

SynthesisSkippedForEmptyResults ==
    /\ entry = "ainvoke"
    /\ pc = "returned"
    /\ Last(trace) = "synthesize_results"
    /\ asked.plan.kind = "content"
    /\ MapHas(context_gathered, "worker_results")
    /\ Len(context_gathered["worker_results"]) = 0
    /\ calls.synthesis = 0
    /\ final_response = NoneVal
    /\ \A i \in 1..Len(conversation_history) :
          conversation_history[i].message_type # "supervisor_decision"

====
